---------------------------- MODULE Spec2Model ----------------------------
(***************************************************************************)
(* A model of src/data/model_comp.py: the metric engine (sumMarkParents,   *)
(* calcSensitivity, calcPrecision), the aggregator (aggregate_DFs) and the *)
(* source adapters (TIMES_cleanup, Meteor_cleanup, ToolBox_cleanup,        *)
(* BioTransformer_cleanup, CTS_cleanup, gen_sygma_metabolites_DF,          *)
(* genLiteratureDF).                                                       *)
(*                                                                         *)
(* A data frame is a sequence of rows; a row is a record whose fields are  *)
(* the frame's columns.  A metric value is an integer number of            *)
(* thousandths (0.75 is 750): every value the code returns went through    *)
(* round(x, 3).  What a call gave is a record: Returned(v), Raised(e) with *)
(* the name of the exception, or Unset before the call.                    *)
(***************************************************************************)
EXTENDS Integers, Sequences, FiniteSets, TLC

VARIABLES
    phase,      \* which part of the program this behaviour exercises
    data,       \* metric engine: the aggregated table handed to the metrics
    modelName,  \* metric engine: the model selector (a column name or a list)
    sumReducedMark, \* metric engine: what sumMarkParents returned to calcSensitivity
    sens,       \* metric engine: what calcSensitivity returned ("unset" before)
    prec,       \* metric engine: what calcPrecision returned ("unset" before)
    DF_List,    \* aggregator: the list of adapter outputs to aggregate
    agg,        \* aggregator: aggregate_DFs(DF_List)
    aggNested,  \* aggregator: aggregate_DFs([aggregate_DFs(DF_List[0:2]), DF_List[2]])
    adapter,    \* adapters: which adapter the raw input is in the format of
    raw,        \* adapters: the rows read from the export file
    DTXSIDdict, \* adapters: the identifier-to-DTXSID index handed to the adapter
    markushFile, \* adapters: the supplementary table handed to genLiteratureDF
    out         \* adapters: what the adapter returned ("unset" before)

vars == <<phase, data, modelName, sumReducedMark, sens, prec, DF_List, agg, aggNested,
          adapter, raw, DTXSIDdict, markushFile, out>>

metricVars == <<data, modelName, sumReducedMark, sens, prec>>
aggVars == <<DF_List, agg, aggNested>>
adapterVars == <<adapter, raw, DTXSIDdict, markushFile, out>>

(***************************************************************************)
(* Bounds of the model.                                                    *)
(***************************************************************************)
MaxRows == 3        \* rows of a table handed to the metric engine
MaxAggRows == 2     \* rows of an adapter output handed to the aggregator
MaxSelRows == 2     \* rows of a table handed to the metrics with a list selector
MaxRaw == 2         \* rows of a raw input of an adapter
MaxInterleaved == 4 \* rows of a raw input that interleaves parents and metabolites
MaxLit == 2         \* rows of each of the two tables handed to genLiteratureDF

-----------------------------------------------------------------------------
(***************************************************************************)
(* Outcomes of a call, and helpers on sequences.                           *)
(***************************************************************************)
Unset == [st |-> "unset", val |-> 0]
Returned(v) == [st |-> "returned", val |-> v]
Raised(e) == [st |-> e, val |-> 0]

\* the same for calls that return a data frame ([cols, rows], see below)
EmptyFrame == [cols |-> {}, rows |-> <<>>]
UnsetDF == [st |-> "unset", val |-> EmptyFrame]
NoneDF == [st |-> "None", val |-> EmptyFrame]
RaisedDF(e) == [st |-> e, val |-> EmptyFrame]

SeqsUpTo(S, n) == UNION {[1..k -> S] : k \in 0..n}

\* sum(boolSeries): the number of True entries of a boolean column
CountTrue(f) == Cardinality({i \in DOMAIN f : f[i]})

RECURSIVE BitAnd(_, _)
\* Python's x & y on non-negative integers
BitAnd(x, y) ==
    IF x = 0 \/ y = 0 THEN 0
    ELSE (x % 2) * (y % 2) + 2 * BitAnd(x \div 2, y \div 2)

\* Python's round(n / d, 3), d > 0, in thousandths.  The quotient nearest to
\* 1000*n/d; a tie (2000*n/d an odd integer) goes to the even neighbour as
\* round() does on a value the float holds exactly.
Round3(n, d) ==
    LET q == (1000 * n) \div d
        r == (1000 * n) % d
    IN  IF 2 * r < d THEN q
        ELSE IF 2 * r > d THEN q + 1
        ELSE IF q % 2 = 0 THEN q ELSE q + 1

-----------------------------------------------------------------------------
(***************************************************************************)
(* The metric engine.                                                      *)
(***************************************************************************)
Parents == {"P1", "P2"}          \* values of the DTXSID column
Groups == {"G1", "G2"}           \* values of the Metabolite DTXSID column

MetricRows ==
    [M1 : {0, 1}, Reported : {0, 1}, Markush : {0, 1},
     DTXSID : Parents, MetabDTXSID : Groups]

\* Every count the metrics take is a sum or a set over the rows, so the
\* tables are enumerated up to the order of their rows: one table for each
\* multiset of at most n rows, its rows in the order of RowCode.
RowCode(r) ==
    16 * r.M1 + 8 * r.Reported + 4 * r.Markush
    + 2 * (IF r.DTXSID = "P1" THEN 0 ELSE 1)
    + (IF r.MetabDTXSID = "G1" THEN 0 ELSE 1)

RECURSIVE MetricTables(_)
MetricTables(n) ==
    IF n = 0 THEN {<<>>}
    ELSE LET shorter == MetricTables(n - 1)
             longest == {t \in shorter : Len(t) = n - 1}
         IN  shorter \cup
             UNION {{Append(t, r) :
                        r \in {x \in MetricRows :
                                  n = 1 \/ RowCode(x) >= RowCode(t[n - 1])}} :
                    t \in longest}

\* The scenario of the specification: 2 non-ambiguous reported true
\* positives, 1 non-ambiguous reported false negative, one Reported+Markush
\* group of 3 rows of which exactly one (the k-th) carries the model flag.
ExampleRow(m, mk, g) ==
    [M1 |-> m, Reported |-> 1, Markush |-> mk, DTXSID |-> "P1", MetabDTXSID |-> g]

ExampleTable(k) ==
    <<ExampleRow(1, 0, "G2"), ExampleRow(1, 0, "G2"), ExampleRow(0, 0, "G2"),
      ExampleRow(IF k = 1 THEN 1 ELSE 0, 1, "G1"),
      ExampleRow(IF k = 2 THEN 1 ELSE 0, 1, "G1"),
      ExampleRow(IF k = 3 THEN 1 ELSE 0, 1, "G1")>>

ExampleTables == {ExampleTable(k) : k \in 1..3}

\* A model selector is a column name (a str) or a list of column names.
StrName(c) == [isList |-> FALSE, names |-> <<c>>]
ListOf(cs) == [isList |-> TRUE, names |-> cs]

\* the selector that reads the first column of a list only
ModelFilterOf_FirstOnly(df, name) ==
    [i \in DOMAIN df |-> df[i][name.names[1]] = 1]

\* data[modelName] == 1 for a column name; for a list, the fold
\* modelFilter = modelFilter | data[model] == 1, which Python reads as
\* (modelFilter | data[model]) == 1: the boolean column or-ed with the 0/1
\* column is a boolean column, and True == 1.
ModelFilterOf(df, name) ==
    IF ~name.isList
    THEN [i \in DOMAIN df |-> df[i][name.names[1]] = 1]
    ELSE LET RECURSIVE Fold(_, _)
             Fold(f, k) ==
                 IF k > Len(name.names) THEN f
                 ELSE Fold([i \in DOMAIN df |->
                              (f[i] \/ df[i][name.names[k]] # 0) = TRUE], k + 1)
         IN  Fold([i \in DOMAIN df |-> df[i][name.names[1]] = 1], 2)

sumMarkParents_AllRows(dataFrame, modelFilter) ==
    LET uniqueMatch == {<<dataFrame[i].DTXSID, dataFrame[i].MetabDTXSID>> :
                            i \in DOMAIN dataFrame}
        sumPredicted(pm) ==
            Cardinality({i \in DOMAIN dataFrame :
                            /\ dataFrame[i].DTXSID = pm[1]
                            /\ dataFrame[i].MetabDTXSID = pm[2]
                            /\ modelFilter[i]})
    IN  Cardinality({pm \in uniqueMatch : sumPredicted(pm) > 0})

sumMarkParents_PerRow(dataFrame, modelFilter) ==
    Cardinality({i \in DOMAIN dataFrame :
                    dataFrame[i].Markush = 1 /\ modelFilter[i]})

\* markDF keeps the index labels of its rows in dataFrame; parFilter and
\* metabFilter are columns over markDF's index and modelFilter is a column
\* over dataFrame's, so the & aligns them on the label and a label that is
\* not in markDF reads False.
sumMarkParents(dataFrame, modelFilter) ==
    LET markDF == {i \in DOMAIN dataFrame : dataFrame[i].Markush = 1}
        uniqueMatch == {<<dataFrame[i].DTXSID, dataFrame[i].MetabDTXSID>> :
                            i \in markDF}
        sumPredicted(pm) ==
            Cardinality({i \in markDF :
                            /\ dataFrame[i].DTXSID = pm[1]
                            /\ dataFrame[i].MetabDTXSID = pm[2]
                            /\ modelFilter[i]})
    IN  Cardinality({pm \in uniqueMatch : sumPredicted(pm) > 0})

calcSensitivity_PerRow(df, name) ==
    LET modelFilter == ModelFilterOf(df, name)
        num == CountTrue([i \in DOMAIN df |->
                   modelFilter[i] /\ df[i].Reported = 1])
        den == CountTrue([i \in DOMAIN df |-> df[i].Reported = 1])
    IN  IF den = 0 THEN Raised("ZeroDivisionError") ELSE Returned(Round3(num, den))

\* The counts are Python ints (sum() over a column adds Python bools, len()
\* is an int), so a zero denominator raises ZeroDivisionError.
calcSensitivity(df, name) ==
    LET modelFilter == ModelFilterOf(df, name)
        reportFilter == [i \in DOMAIN df |-> df[i].Reported = 1]
        markFilter == [i \in DOMAIN df |-> df[i].Markush = 1]
        trueNonMark == CountTrue([i \in DOMAIN df |->
                           modelFilter[i] /\ reportFilter[i] /\ ~markFilter[i]])
        trueMarkParent == sumMarkParents(df, modelFilter)
        reportNonMark == CountTrue([i \in DOMAIN df |->
                             reportFilter[i] /\ ~markFilter[i]])
        reportMarkParent ==
            Cardinality({<<df[i].DTXSID, df[i].MetabDTXSID>> :
                            i \in {j \in DOMAIN df :
                                      reportFilter[j] /\ markFilter[j]}})
    IN  IF reportNonMark + reportMarkParent = 0
        THEN Raised("ZeroDivisionError")
        ELSE Returned(Round3(trueNonMark + trueMarkParent,
                             reportNonMark + reportMarkParent))

calcPrecision_NoZeroBranch(df, name) ==
    LET modelFilter == ModelFilterOf(df, name)
        truePred == CountTrue([i \in DOMAIN df |->
                        modelFilter[i] /\ df[i].Reported = 1])
        allPred == CountTrue(modelFilter)
    IN  IF allPred > 0 THEN Returned(Round3(truePred, allPred))
        ELSE Raised("UnboundLocalError")

calcPrecision_AllRows(df, name) ==
    LET modelFilter == ModelFilterOf(df, name)
        truePred == CountTrue([i \in DOMAIN df |->
                        modelFilter[i] /\ df[i].Reported = 1])
        allPred == Len(df)
    IN  IF allPred > 0 THEN Returned(Round3(truePred, allPred))
        ELSE Returned(0)

\* elif (allPred == 0 & truePred == 0) is the chained comparison
\* allPred == (0 & truePred) and (0 & truePred) == 0; a call that takes
\* neither branch returns a name that was never bound.
calcPrecision(df, name) ==
    LET modelFilter == ModelFilterOf(df, name)
        reportFilter == [i \in DOMAIN df |-> df[i].Reported = 1]
        truePred == CountTrue([i \in DOMAIN df |->
                        modelFilter[i] /\ reportFilter[i]])
        allPred == CountTrue(modelFilter)
    IN  IF allPred > 0 THEN Returned(Round3(truePred, allPred))
        ELSE IF allPred = BitAnd(0, truePred) /\ BitAnd(0, truePred) = 0
             THEN Returned(0)
        ELSE Raised("UnboundLocalError")

InitMetric ==
    /\ phase = "metric"
    /\ data \in MetricTables(MaxRows) \cup ExampleTables
    /\ modelName = StrName("M1")
    /\ sumReducedMark = Unset
    /\ sens = Unset
    /\ prec = Unset
    /\ DF_List = <<>> /\ agg = UnsetDF /\ aggNested = UnsetDF
    /\ adapter = "none" /\ raw = <<>> /\ DTXSIDdict = <<>> /\ out = UnsetDF
    /\ markushFile = <<>>

CalcSensitivity ==
    /\ phase \in {"metric", "selector"}
    /\ sens = Unset
    /\ sumReducedMark' =
           Returned(sumMarkParents(data, ModelFilterOf(data, modelName)))
    /\ sens' = calcSensitivity(data, modelName)
    /\ UNCHANGED <<phase, data, modelName, prec, aggVars, adapterVars>>

CalcPrecision ==
    /\ phase \in {"metric", "selector"}
    /\ prec = Unset
    /\ prec' = calcPrecision(data, modelName)
    /\ UNCHANGED <<phase, data, modelName, sumReducedMark, sens,
                   aggVars, adapterVars>>

NextMetric == CalcSensitivity \/ CalcPrecision

SpecMetric == InitMetric /\ [][NextMetric]_vars

\* The metrics called with a list of model columns: tables with the three
\* 0/1 flag columns M1, M2, M3, enumerated up to the order of their rows as
\* above, and the selectors, a column name or a list of column names.
SelectorRows ==
    [M1 : {0, 1}, M2 : {0, 1}, M3 : {0, 1}, Reported : {0, 1},
     Markush : {0, 1}, DTXSID : {"P1"}, MetabDTXSID : Groups]

SelectorCode(r) ==
    32 * r.M1 + 16 * r.M2 + 8 * r.M3 + 4 * r.Reported + 2 * r.Markush
    + (IF r.MetabDTXSID = "G1" THEN 0 ELSE 1)

RECURSIVE SelectorTables(_)
SelectorTables(n) ==
    IF n = 0 THEN {<<>>}
    ELSE LET shorter == SelectorTables(n - 1)
             longest == {t \in shorter : Len(t) = n - 1}
         IN  shorter \cup
             UNION {{Append(t, r) :
                        r \in {x \in SelectorRows :
                                  n = 1 \/ SelectorCode(x) >= SelectorCode(t[n - 1])}} :
                    t \in longest}

Selectors ==
    {StrName("M1"), ListOf(<<"M1">>), ListOf(<<"M1", "M2">>),
     ListOf(<<"M2", "M1">>), ListOf(<<"M3", "M3">>),
     ListOf(<<"M1", "M2", "M3">>)}

InitSelector ==
    /\ phase = "selector"
    /\ data \in SelectorTables(MaxSelRows)
    /\ modelName \in Selectors
    /\ sumReducedMark = Unset
    /\ sens = Unset
    /\ prec = Unset
    /\ DF_List = <<>> /\ agg = UnsetDF /\ aggNested = UnsetDF
    /\ adapter = "none" /\ raw = <<>> /\ DTXSIDdict = <<>> /\ out = UnsetDF
    /\ markushFile = <<>>

SpecSelector == InitSelector /\ [][NextMetric]_vars

-----------------------------------------------------------------------------
(***************************************************************************)
(* The aggregator.  A frame is [cols, rows]: the names of its columns      *)
(* other than the two join keys, and its rows, each a function from the    *)
(* column names to cells.  Cells are strings here: "1" and "0" are the     *)
(* numbers, "NaN" is the missing value (None or NaN).                      *)
(***************************************************************************)
arg_on == {"DTXSID", "Metabolite_INCHIKEY"}
excludedColumns == {"Clean_SMILES"}

\* the flag columns of the adapter outputs that are aggregated, in order
Sources == <<"ToolBox", "Meteor", "SyGMa">>

\* DTXSID cells of an adapter output: a parent, or missing where the adapter
\* found none (ToolBox_cleanup and gen_sygma_metabolites_DF emit
\* DTXSIDdict.get(e), TIMES_cleanup leaves NaN before the first parent row)
AggParents == {"P1", "NaN"}
AggKeys == {"K1", "K2"}

\* the canonical structure string of the structure with identifier k
CleanOf(k) == IF k = "K1" THEN "C1" ELSE "C2"

\* the row an adapter emits for the pair (p, k), its flag column being src
AdapterRow(p, k, src) ==
    [c \in arg_on \cup {"Clean_SMILES", src} |->
        CASE c = "DTXSID" -> p
          [] c = "Metabolite_INCHIKEY" -> k
          [] c = "Clean_SMILES" -> CleanOf(k)
          [] OTHER -> "1"]

PairCode(pk) ==
    2 * (IF pk[1] = "P1" THEN 0 ELSE 1) + (IF pk[2] = "K1" THEN 0 ELSE 1)

\* The lists of pairs of at most n rows, one for each multiset of pairs:
\* the claims about the aggregate are about its set of rows.
RECURSIVE PairLists(_)
PairLists(n) ==
    IF n = 0 THEN {<<>>}
    ELSE LET shorter == PairLists(n - 1)
             longest == {t \in shorter : Len(t) = n - 1}
         IN  shorter \cup
             UNION {{Append(t, pk) :
                        pk \in {x \in AggParents \X AggKeys :
                                  n = 1 \/ PairCode(x) >= PairCode(t[n - 1])}} :
                    t \in longest}

AdapterOutput(pairs, src) ==
    [cols |-> {"Clean_SMILES", src},
     rows |-> [i \in DOMAIN pairs |-> AdapterRow(pairs[i][1], pairs[i][2], src)]]

RECURSIVE Flatten(_)
\* the concatenation of a sequence of sequences
Flatten(ss) == IF ss = <<>> THEN <<>> ELSE Head(ss) \o Flatten(Tail(ss))

\* df[mask]: the rows of sq whose index is in keep, in their order
SelectIdx(sq, keep) ==
    LET RECURSIVE Sel(_)
        Sel(i) == IF i > Len(sq) THEN <<>>
                  ELSE (IF i \in keep THEN <<sq[i]>> ELSE <<>>) \o Sel(i + 1)
    IN  Sel(1)

\* DataFrame.drop(excludedColumns, axis = 1): KeyError when a label is not
\* a column of the frame
Drop(df) ==
    IF ~(excludedColumns \subseteq df.cols) THEN RaisedDF("KeyError")
    ELSE Returned([cols |-> df.cols \ excludedColumns,
                   rows |-> [i \in DOMAIN df.rows |->
                               [c \in arg_on \cup (df.cols \ excludedColumns) |->
                                   df.rows[i][c]]]])

\* try: df.drop(excludedColumns, axis = 1)  except: df
DropOrKeep(df) == IF Drop(df).st = "returned" THEN Drop(df).val ELSE df

SameKeys(l, r) == \A k \in arg_on : l[k] = r[k]

\* pd.merge(left, right, on = arg_on, how = 'outer') for frames that share no
\* column but the keys: every pairing of a left row with a right row of the
\* same keys (missing keys match missing keys), then the rows of either side
\* that matched nothing, the other side's columns missing.
OuterMerge(left, right) ==
    LET cols == left.cols \cup right.cols
        Join(l, r) == [c \in arg_on \cup cols |->
                          IF c \in arg_on \cup left.cols THEN l[c] ELSE r[c]]
        LeftOnly(l) == [c \in arg_on \cup cols |->
                          IF c \in arg_on \cup left.cols THEN l[c] ELSE "NaN"]
        RightOnly(r) == [c \in arg_on \cup cols |->
                          IF c \in arg_on \cup right.cols THEN r[c] ELSE "NaN"]
        Matches(l) == SelectIdx(right.rows,
                          {j \in DOMAIN right.rows : SameKeys(l, right.rows[j])})
        OfLeft(l) == IF Matches(l) = <<>> THEN <<LeftOnly(l)>>
                     ELSE [j \in DOMAIN Matches(l) |-> Join(l, Matches(l)[j])]
        unmatched == SelectIdx(right.rows,
                        {j \in DOMAIN right.rows :
                            \A i \in DOMAIN left.rows :
                                ~SameKeys(left.rows[i], right.rows[j])})
    IN  [cols |-> cols,
         rows |-> Flatten([i \in DOMAIN left.rows |-> OfLeft(left.rows[i])])
                  \o [j \in DOMAIN unmatched |-> RightOnly(unmatched[j])]]

\* DataFrame.replace(np.NaN, 0): every missing cell of every column, the key
\* columns included, becomes 0
ReplaceNaN(df) ==
    [cols |-> df.cols,
     rows |-> [i \in DOMAIN df.rows |->
                 [c \in DOMAIN df.rows[i] |->
                     IF df.rows[i][c] = "NaN" THEN "0" ELSE df.rows[i][c]]]]

DropDuplicates_KeepNone(df) ==
    [cols |-> df.cols,
     rows |-> SelectIdx(df.rows,
                 {i \in DOMAIN df.rows :
                     \A j \in DOMAIN df.rows :
                         j # i => df.rows[j] # df.rows[i]})]

\* DataFrame.drop_duplicates(): the first of each run of equal rows is kept
DropDuplicates(df) ==
    [cols |-> df.cols,
     rows |-> SelectIdx(df.rows,
                 {i \in DOMAIN df.rows :
                     \A j \in 1..(i - 1) : df.rows[j] # df.rows[i]})]

aggregate_DFs_NoExcept(dfs) ==
    LET RECURSIVE Fold(_, _)
        Fold(acc, k) ==
            IF k > Len(dfs) THEN acc
            ELSE Fold(ReplaceNaN(OuterMerge(acc, Drop(dfs[k]).val)), k + 1)
    IN  IF Len(dfs) < 2 THEN NoneDF
        ELSE IF \E k \in DOMAIN dfs : Drop(dfs[k]).st # "returned"
             THEN RaisedDF("KeyError")
        ELSE Returned(DropDuplicates(Fold(Drop(dfs[1]).val, 2)))

aggregate_DFs_OneMerge(dfs) ==
    IF Len(dfs) < 2 THEN NoneDF
    ELSE Returned(DropDuplicates(
             ReplaceNaN(OuterMerge(DropOrKeep(dfs[1]), DropOrKeep(dfs[2])))))

\* The fold of aggregate_DFs: merge each further frame onto agg_DF and
\* replace the missing values after every merge; drop the duplicate rows at
\* the end.  Fewer than two frames: return None.
aggregate_DFs(dfs) ==
    LET RECURSIVE Fold(_, _)
        Fold(agg_DF, k) ==
            IF k > Len(dfs) THEN agg_DF
            ELSE Fold(ReplaceNaN(OuterMerge(agg_DF, DropOrKeep(dfs[k]))), k + 1)
    IN  IF Len(dfs) < 2 THEN NoneDF
        ELSE Returned(DropDuplicates(Fold(DropOrKeep(dfs[1]), 2)))

InitAgg ==
    /\ phase = "aggregate"
    /\ \E n \in 1..Len(Sources) :
          \E pairs \in [1..n -> PairLists(MaxAggRows)] :
             DF_List = [i \in 1..n |-> AdapterOutput(pairs[i], Sources[i])]
    /\ agg = UnsetDF
    /\ aggNested = UnsetDF
    /\ data = <<>> /\ modelName = StrName("M1") /\ sumReducedMark = Unset
    /\ sens = Unset /\ prec = Unset
    /\ adapter = "none" /\ raw = <<>> /\ DTXSIDdict = <<>> /\ out = UnsetDF
    /\ markushFile = <<>>

\* agg = aggregate_DFs(DF_List)
Aggregate ==
    /\ phase = "aggregate"
    /\ agg = UnsetDF
    /\ agg' = aggregate_DFs(DF_List)
    /\ UNCHANGED <<phase, DF_List, aggNested, metricVars, adapterVars>>

\* aggNested = aggregate_DFs([aggregate_DFs(DF_List[0:2]), DF_List[2]])
AggregateNested ==
    /\ phase = "aggregate"
    /\ aggNested = UnsetDF
    /\ Len(DF_List) = 3
    /\ LET inner == aggregate_DFs(SubSeq(DF_List, 1, 2))
       IN  aggNested' = aggregate_DFs(<<inner.val, DF_List[3]>>)
    /\ UNCHANGED <<phase, DF_List, agg, metricVars, adapterVars>>

NextAgg == Aggregate \/ AggregateNested

SpecAgg == InitAgg /\ [][NextAgg]_vars

-----------------------------------------------------------------------------
(***************************************************************************)
(* The structure library (RDKit) as the adapters use it.  Structure        *)
(* strings: "s1" and "s1b" are two spellings of one metabolite, "s2" is    *)
(* another metabolite, "p1", "p2" are parents and "p1s" is a stereoisomer  *)
(* of "p1"; "bad" does not parse; "NaN" is an empty cell (a float, not a   *)
(* string).  "C..." are the canonical strings MolToSmiles writes.          *)
(***************************************************************************)
Unparseable == {"bad"}

\* Chem.MolFromSmiles(x): the molecule, None for a string that does not
\* parse; a cell that is not a string raises TypeError
MolFromSmiles(x) ==
    CASE x = "NaN" -> "!TypeError"
      [] x \in Unparseable -> "None"
      [] x \in {"s1", "s1b", "C1"} -> "m1"
      [] x \in {"s2", "C2"} -> "m2"
      [] x \in {"p1", "CP1"} -> "mp1"
      [] x = "p1s" -> "mp1s"
      [] x \in {"p2", "CP2"} -> "mp2"

\* Chem.MolFromInchi(x, sanitize = False)
MolFromInchi(x) ==
    CASE x = "NaN" -> "!TypeError"
      [] x \in Unparseable -> "None"
      [] x = "i1" -> "m1"
      [] x = "i2" -> "m2"

\* Chem.MolToSmiles(mol, isomericSmiles = False); None is not a molecule
MolToSmiles(mol) ==
    CASE mol = "None" -> "!ArgumentError"
      [] mol = "m1" -> "C1"
      [] mol = "m2" -> "C2"
      [] mol \in {"mp1", "mp1s"} -> "CP1"
      [] mol = "mp2" -> "CP2"
      [] OTHER -> mol

\* Chem.InchiToInchiKey(Chem.MolToInchi(mol))
MolToInchiKey(mol) ==
    CASE mol = "None" -> "!ArgumentError"
      [] mol = "m1" -> "K1"
      [] mol = "m2" -> "K2"
      [] mol = "mp1" -> "PK1"
      [] mol = "mp1s" -> "PK1S"
      [] mol = "mp2" -> "PK2"
      [] OTHER -> mol

\* rdMolDescriptors.CalcMolFormula(mol) and Descriptors.ExactMolWt(mol) + mass_H
CalcMolFormula(mol) ==
    CASE mol = "None" -> "!ArgumentError"
      [] mol = "m1" -> "F1"
      [] mol = "m2" -> "F2"
      [] OTHER -> "FP"

ExactMolWt(mol) ==
    CASE mol = "None" -> "!ArgumentError"
      [] mol = "m1" -> "W1"
      [] mol = "m2" -> "W2"
      [] OTHER -> "WP"

Exceptions == {"!TypeError", "!ArgumentError", "!KeyError"}

\* series.apply(f): the column of results, or the first exception raised
RaisedSeq(e) == [st |-> e, val |-> <<>>]
ReturnedSeq(q) == [st |-> "returned", val |-> q]
FirstRaise(q) ==
    LET bad == {i \in DOMAIN q : q[i] \in Exceptions}
    IN  IF bad = {} THEN ReturnedSeq(q)
        ELSE RaisedSeq(q[CHOOSE i \in bad : \A j \in bad : i <= j])

\* two applies in a row: the second, the column next, is taken only if the
\* first raised nothing
Then(first, next) ==
    IF first.st # "returned" THEN first ELSE FirstRaise(next)

SMILES_to_InchiKey_Lenient(smile_List, stereoisomer) ==
    ReturnedSeq([i \in DOMAIN smile_List |->
        IF MolFromSmiles(smile_List[i]) \in Exceptions \cup {"None"} THEN "NaN"
        ELSE IF stereoisomer THEN MolToInchiKey(MolFromSmiles(smile_List[i]))
        ELSE MolToInchiKey(MolFromSmiles(MolToSmiles(MolFromSmiles(smile_List[i]))))])

SMILES_to_InchiKey(smile_List, stereoisomer) ==
    LET molList == FirstRaise([i \in DOMAIN smile_List |->
                                  MolFromSmiles(smile_List[i])])
        n == DOMAIN smile_List
        clean == Then(molList, [i \in n |-> MolToSmiles(molList.val[i])])
        molList2 == Then(clean, [i \in n |-> MolFromSmiles(clean.val[i])])
    IN  IF stereoisomer
        THEN Then(molList, [i \in n |-> MolToInchiKey(molList.val[i])])
        ELSE Then(molList2, [i \in n |-> MolToInchiKey(molList2.val[i])])

clean_SMILES(series_List, source) ==
    LET mol_list == FirstRaise([i \in DOMAIN series_List |->
                       IF source = "SMILES" THEN MolFromSmiles(series_List[i])
                       ELSE MolFromInchi(series_List[i])])
    IN  Then(mol_list, [i \in DOMAIN series_List |-> MolToSmiles(mol_list.val[i])])

\* the two columns of SMILES_to_MW, each cell <<formula, mass>>
SMILES_to_MW(smile_List) ==
    LET molList == FirstRaise([i \in DOMAIN smile_List |->
                                  MolFromSmiles(smile_List[i])])
        MH_list == Then(molList, [i \in DOMAIN smile_List |->
                                     ExactMolWt(molList.val[i])])
        molForm_list == Then(molList, [i \in DOMAIN smile_List |->
                                          CalcMolFormula(molList.val[i])])
    IN  IF MH_list.st # "returned" THEN MH_list
        ELSE IF molForm_list.st # "returned" THEN molForm_list
        ELSE ReturnedSeq([i \in DOMAIN smile_List |->
                             <<molForm_list.val[i], MH_list.val[i]>>])

\* column.fillna(method = 'ffill')
RECURSIVE FFillAt(_, _)
FFillAt(col, i) ==
    IF col[i] # "NaN" THEN col[i]
    ELSE IF i = 1 THEN "NaN" ELSE FFillAt(col, i - 1)
FFill(col) == [i \in DOMAIN col |-> FFillAt(col, i)]

\* drop_duplicates on the rows of a frame that is being built
DropDupRows(rows) ==
    SelectIdx(rows, {i \in DOMAIN rows : \A j \in 1..(i - 1) : rows[j] # rows[i]})

Column(rows, c) == [i \in DOMAIN rows |-> rows[i][c]]

\* DTXSIDdict.get(e): None when e is no key
DictGet(d, e) == IF e \in DOMAIN d THEN d[e] ELSE "NaN"

\* the frame an adapter returns: the key columns, Clean_SMILES, extra columns
\* and the flag column of the source
OutFrame(rows, extra, src) ==
    [cols |-> {"Clean_SMILES", src} \cup extra,
     rows |-> [i \in DOMAIN rows |->
                 [c \in arg_on \cup {"Clean_SMILES", src} \cup extra |->
                     IF c = src THEN "1" ELSE rows[i][c]]]]

-----------------------------------------------------------------------------
(***************************************************************************)
(* The source adapters.  raw is the frame read_csv gives: a sequence of    *)
(* rows with the columns the adapter reads.                                *)
(***************************************************************************)
TIMES_header == 1       \* TIMES_cleanup's header = 1
Model_Module == "TIMES_InVivo"

TIMES_cleanup(file) ==
    LET sliced == SubSeq(file, TIMES_header + 1, Len(file) - 2)
        df == [i \in DOMAIN sliced |->
                 [DTXSID |-> IF sliced[i].DTXSID = " " THEN "NaN"
                             ELSE sliced[i].DTXSID,
                  Smiles |-> sliced[i].Smiles]]
        isMetab == {i \in DOMAIN df : df[i].DTXSID = "NaN"}
        keys == SMILES_to_InchiKey(SelectIdx(Column(df, "Smiles"), isMetab), TRUE)
        \* the keys go back to the rows by index label; parent rows get NaN
        rank(i) == Cardinality({j \in isMetab : j <= i})
        filled == FFill(Column(df, "DTXSID"))
        withKey == [i \in DOMAIN df |->
                      [DTXSID |-> filled[i], Smiles |-> df[i].Smiles,
                       Metabolite_INCHIKEY |->
                           IF i \in isMetab THEN keys.val[rank(i)] ELSE "NaN"]]
        kept == DropDupRows(SelectIdx(withKey,
                    {i \in DOMAIN withKey : withKey[i].Metabolite_INCHIKEY # "NaN"}))
        mw == SMILES_to_MW(Column(kept, "Smiles"))
        clean == clean_SMILES(Column(kept, "Smiles"), "SMILES")
    IN  IF keys.st # "returned" THEN RaisedDF(keys.st)
        ELSE IF mw.st # "returned" THEN RaisedDF(mw.st)
        ELSE IF clean.st # "returned" THEN RaisedDF(clean.st)
        ELSE Returned(OutFrame(
                 [i \in DOMAIN kept |->
                    [c \in arg_on \cup {"Clean_SMILES", "Formula", "[M+H]"} |->
                        CASE c = "DTXSID" -> kept[i].DTXSID
                          [] c = "Metabolite_INCHIKEY" -> kept[i].Metabolite_INCHIKEY
                          [] c = "Clean_SMILES" -> clean.val[i]
                          [] c = "Formula" -> mw.val[i][1]
                          [] c = "[M+H]" -> mw.val[i][2]]],
                 {"Formula", "[M+H]"}, Model_Module))

\* str.replace(' \([^()]*\)', ""): the " (Query)" after the DTXSID goes
StripQuery(x) ==
    CASE x = "P1 (Query)" -> "P1"
      [] x = "P2 (Query)" -> "P2"
      [] OTHER -> x

Meteor_cleanup(file) ==
    LET metabList == {i \in DOMAIN file : file[i].Parent # "NaN"}
        keys == SMILES_to_InchiKey(SelectIdx(Column(file, "SMILES"), metabList), TRUE)
        rank(i) == Cardinality({j \in metabList : j <= i})
        df == [i \in DOMAIN file |->
                 [SMILES |-> file[i].SMILES, Name |-> file[i].Name,
                  DTXSID |-> StripQuery(file[i].QueryName),
                  Parent |-> file[i].Parent,
                  Metabolite_INCHIKEY |->
                      IF i \in metabList THEN keys.val[rank(i)] ELSE "NaN"]]
        kept == DropDupRows(SelectIdx(df,
                    {i \in DOMAIN df : df[i].Metabolite_INCHIKEY # "NaN"}))
        clean == clean_SMILES(Column(kept, "SMILES"), "SMILES")
    IN  IF keys.st # "returned" THEN RaisedDF(keys.st)
        ELSE IF clean.st # "returned" THEN RaisedDF(clean.st)
        ELSE Returned(OutFrame(
                 [i \in DOMAIN kept |->
                    [c \in arg_on \cup {"Clean_SMILES"} |->
                        CASE c = "DTXSID" -> kept[i].DTXSID
                          [] c = "Metabolite_INCHIKEY" -> kept[i].Metabolite_INCHIKEY
                          [] c = "Clean_SMILES" -> clean.val[i]]],
                 {}, "Meteor"))

ToolBox_cleanup(file, dict) ==
    LET sliced == SubSeq(file, 1, Len(file) - 2)
        df == SelectIdx(sliced, {i \in DOMAIN sliced : sliced[i].Metabolite # "NaN"})
        keys == SMILES_to_InchiKey(Column(df, "Metabolite"), TRUE)
        parents == SMILES_to_InchiKey(Column(df, "SMILES"), FALSE)
        full == [i \in DOMAIN df |->
                   [SMILES |-> df[i].SMILES, Metabolite |-> df[i].Metabolite,
                    Metabolite_INCHIKEY |-> keys.val[i],
                    Parent_INCHIKEY |-> parents.val[i],
                    DTXSID |-> DictGet(dict, parents.val[i])]]
        kept == DropDupRows(full)
        clean == clean_SMILES(Column(kept, "Metabolite"), "SMILES")
    IN  IF keys.st # "returned" THEN RaisedDF(keys.st)
        ELSE IF parents.st # "returned" THEN RaisedDF(parents.st)
        ELSE IF clean.st # "returned" THEN RaisedDF(clean.st)
        ELSE Returned(OutFrame(
                 [i \in DOMAIN kept |->
                    [c \in arg_on \cup {"Clean_SMILES"} |->
                        CASE c = "DTXSID" -> kept[i].DTXSID
                          [] c = "Metabolite_INCHIKEY" -> kept[i].Metabolite_INCHIKEY
                          [] c = "Clean_SMILES" -> clean.val[i]]],
                 {}, "ToolBox"))

BioTransformer_cleanup(file, dict) ==
    LET filled == FFill([i \in DOMAIN file |-> DictGet(dict, file[i].Precursor)])
        df == [i \in DOMAIN file |->
                 [Metabolite_INCHIKEY |-> file[i].InChIKey,
                  Parent_INCHIKEY |-> file[i].Precursor,
                  Formula |-> file[i].Formula, Mass |-> file[i].Mass,
                  SMILES |-> file[i].SMILES, InChI |-> file[i].InChI,
                  DTXSID |-> filled[i]]]
        kept == DropDupRows(df)
        clean == clean_SMILES(Column(kept, "InChI"), "InChI")
    IN  IF clean.st # "returned" THEN RaisedDF(clean.st)
        ELSE Returned(OutFrame(
                 [i \in DOMAIN kept |->
                    [c \in arg_on \cup {"Clean_SMILES"} |->
                        CASE c = "DTXSID" -> kept[i].DTXSID
                          [] c = "Metabolite_INCHIKEY" -> kept[i].Metabolite_INCHIKEY
                          [] c = "Clean_SMILES" -> clean.val[i]]],
                 {}, "BioTransformer"))

\* dictDTXSID[x]: KeyError when x is no key
DictIndex(d, e) == IF e \in DOMAIN d THEN d[e] ELSE "!KeyError"

CTS_cleanup(ctsData, dict) ==
    LET isParent == {i \in DOMAIN ctsData : ctsData[i].routes = "NaN"}
        parentSMILES == SelectIdx(Column(ctsData, "smiles"), isParent)
        parentInchiKey == FirstRaise([k \in DOMAIN parentSMILES |->
                              MolToInchiKey(MolFromSmiles(parentSMILES[k]))])
        parentDTXSID == Then(parentInchiKey,
                             [k \in DOMAIN parentSMILES |->
                                 DictIndex(dict, parentInchiKey.val[k])])
        rank(i) == Cardinality({j \in isParent : j <= i})
        filledSMILES == FFill([i \in DOMAIN ctsData |->
                           IF i \in isParent THEN ctsData[i].smiles ELSE "NaN"])
        filledDTXSID == FFill([i \in DOMAIN ctsData |->
                           IF i \in isParent THEN parentDTXSID.val[rank(i)]
                           ELSE "NaN"])
        df == [i \in DOMAIN ctsData |->
                 [smiles |-> ctsData[i].smiles, routes |-> ctsData[i].routes,
                  Parent_SMILES |-> filledSMILES[i], DTXSID |-> filledDTXSID[i]]]
        \* dropna: a row with any missing cell goes
        kept == SelectIdx(df, {i \in DOMAIN df :
                                  \A c \in DOMAIN df[i] : df[i][c] # "NaN"})
        keys == SMILES_to_InchiKey(Column(kept, "smiles"), TRUE)
        clean == clean_SMILES(Column(kept, "smiles"), "SMILES")
    IN  IF parentDTXSID.st # "returned" THEN RaisedDF(parentDTXSID.st)
        ELSE IF keys.st # "returned" THEN RaisedDF(keys.st)
        ELSE IF clean.st # "returned" THEN RaisedDF(clean.st)
        ELSE Returned(OutFrame(
                 [i \in DOMAIN kept |->
                    [c \in arg_on \cup {"Clean_SMILES"} |->
                        CASE c = "DTXSID" -> kept[i].DTXSID
                          [] c = "Metabolite_INCHIKEY" -> keys.val[i]
                          [] c = "Clean_SMILES" -> clean.val[i]]],
                 {}, "CTS"))

\* metabolic_tree.to_list() of the tree scenario.run(mol) built: the parent
\* itself, its pathway ending in "parent", then the metabolites the rules
\* gave, each once
ToList(mol) ==
    IF mol = "mp2"
    THEN <<[SyGMa_metabolite |-> mol, SyGMa_pathway |-> "parent;\n"],
           [SyGMa_metabolite |-> "m1", SyGMa_pathway |-> "rule1; \n"]>>
    ELSE <<[SyGMa_metabolite |-> mol, SyGMa_pathway |-> "parent;\n"],
           [SyGMa_metabolite |-> "m1", SyGMa_pathway |-> "rule1; \n"],
           [SyGMa_metabolite |-> "m2", SyGMa_pathway |-> "rule2; \n"]>>

\* e.strip() and then e.replace(';', '')
StripPathway(e) ==
    CASE e = "parent;\n" -> "parent"
      [] e = "rule1; \n" -> "rule1"
      [] e = "rule2; \n" -> "rule2"

gen_sygma_metabolites_DF(smiles_series, dict) ==
    LET \* the rows one parent adds to metab_DF; none when calc_scores
        \* raised ZeroDivisionError, which is printed
        OfParent(k) ==
            IF smiles_series[k].engine = "ZeroDivisionError" THEN <<>>
            ELSE LET metabolite_list ==
                         ToList(MolFromSmiles(smiles_series[k].smiles))
                 IN  [j \in DOMAIN metabolite_list |->
                        [SyGMa_metabolite |-> metabolite_list[j].SyGMa_metabolite,
                         SyGMa_pathway |->
                             StripPathway(metabolite_list[j].SyGMa_pathway),
                         parent_smiles |-> smiles_series[k].smiles]]
        metab_DF == Flatten([k \in DOMAIN smiles_series |-> OfParent(k)])
        parents == SMILES_to_InchiKey(Column(metab_DF, "parent_smiles"), TRUE)
        clean == FirstRaise([i \in DOMAIN metab_DF |->
                     MolToSmiles(metab_DF[i].SyGMa_metabolite)])
        keys == SMILES_to_InchiKey(clean.val, TRUE)
        keptIdx == {i \in DOMAIN metab_DF : metab_DF[i].SyGMa_pathway # "parent"}
    IN  \* an empty metab_DF has no parent_smiles column
        IF metab_DF = <<>> THEN RaisedDF("!KeyError")
        ELSE IF parents.st # "returned" THEN RaisedDF(parents.st)
        ELSE IF clean.st # "returned" THEN RaisedDF(clean.st)
        ELSE IF keys.st # "returned" THEN RaisedDF(keys.st)
        ELSE Returned(OutFrame(
                 SelectIdx(
                    [i \in DOMAIN metab_DF |->
                       [c \in arg_on \cup {"Clean_SMILES"} |->
                           CASE c = "DTXSID" -> DictGet(dict, parents.val[i])
                             [] c = "Metabolite_INCHIKEY" -> keys.val[i]
                             [] c = "Clean_SMILES" -> clean.val[i]]],
                    keptIdx),
                 {}, "SyGMa"))

(***************************************************************************)
(* The raw inputs.                                                         *)
(***************************************************************************)
MetSmiles == {"s1", "s1b", "s2", "bad"}

TIMESRows == [DTXSID : {"P1", "P2", " "}, Smiles : MetSmiles]
\* the rows of a TIMES export that the slice df[header:-2] cuts off
TIMESFraming == [DTXSID |-> "units", Smiles |-> "NaN"]
TIMESFiles ==
    {<<TIMESFraming>> \o rows \o <<TIMESFraming, TIMESFraming>> :
        rows \in SeqsUpTo(TIMESRows, MaxInterleaved)}

MeteorRows ==
    [SMILES : MetSmiles, Name : {"n1", "n2"},
     QueryName : {"P1 (Query)", "P2 (Query)"}, Parent : {"NaN", "parent"}]
MeteorFiles == SeqsUpTo(MeteorRows, MaxRaw)

ToolBoxRows ==
    [SMILES : {"p1", "p1s", "p2"}, Metabolite : MetSmiles \cup {"NaN"}]
\* the two bottom rows of a Toolbox export that the slice df[:-2] cuts off
ToolBoxFraming == [SMILES |-> "NaN", Metabolite |-> "NaN"]
ToolBoxFiles ==
    {rows \o <<ToolBoxFraming, ToolBoxFraming>> :
        rows \in SeqsUpTo(ToolBoxRows, MaxRaw)}

\* a BioTransformer row for the metabolite spelled smi of the precursor;
\* its InChI column parses or not
BioTransformerRow(precursor, smi, inchiParses) ==
    [InChIKey |-> MolToInchiKey(MolFromSmiles(smi)), Precursor |-> precursor,
     Formula |-> CalcMolFormula(MolFromSmiles(smi)),
     Mass |-> ExactMolWt(MolFromSmiles(smi)), SMILES |-> smi,
     InChI |-> IF ~inchiParses THEN "bad"
               ELSE IF MolFromSmiles(smi) = "m1" THEN "i1" ELSE "i2"]
BioTransformerRows ==
    {BioTransformerRow(pk, smi, ok) :
        pk \in {"PK1", "PK2"}, smi \in {"s1", "s1b", "s2"}, ok \in BOOLEAN}
BioTransformerFiles == SeqsUpTo(BioTransformerRows, MaxRaw)

CTSRows == [smiles : {"p1", "p2"} \cup MetSmiles, routes : {"NaN", "route"}]
CTSFiles == SeqsUpTo(CTSRows, MaxInterleaved)

SyGMaRows == [smiles : {"p1", "p1s", "p2"}, engine : {"ok", "ZeroDivisionError"}]
SyGMaSeries == SeqsUpTo(SyGMaRows, MaxRaw)

\* the indexes the caller may hand over: every parent known, or only the first
DTXSIDOf(k) == IF k = "PK1" THEN "P1" ELSE "P2"
Dicts == {[k \in D |-> DTXSIDOf(k)] : D \in {{"PK1"}, {"PK1", "PK2"}}}
NoDict == [k \in {} |-> "NaN"]

InitAdapters ==
    /\ phase = "adapter"
    /\ \/ adapter = "TIMES" /\ raw \in TIMESFiles /\ DTXSIDdict = NoDict
       \/ adapter = "Meteor" /\ raw \in MeteorFiles /\ DTXSIDdict = NoDict
       \/ adapter = "ToolBox" /\ raw \in ToolBoxFiles /\ DTXSIDdict \in Dicts
       \/ adapter = "BioTransformer" /\ raw \in BioTransformerFiles
             /\ DTXSIDdict \in Dicts
       \/ adapter = "CTS" /\ raw \in CTSFiles /\ DTXSIDdict \in Dicts
       \/ adapter = "SyGMa" /\ raw \in SyGMaSeries /\ DTXSIDdict \in Dicts
    /\ out = UnsetDF
    /\ markushFile = <<>>
    /\ data = <<>> /\ modelName = StrName("M1") /\ sumReducedMark = Unset
    /\ sens = Unset /\ prec = Unset
    /\ DF_List = <<>> /\ agg = UnsetDF /\ aggNested = UnsetDF

Ran(name, result) ==
    /\ phase = "adapter"
    /\ adapter = name
    /\ out = UnsetDF
    /\ out' = result
    /\ UNCHANGED <<phase, adapter, raw, DTXSIDdict, markushFile, metricVars, aggVars>>

\* the call of the adapter name on a raw input and an index
RunAdapter(name, file, dict) ==
    CASE name = "TIMES" -> TIMES_cleanup(file)
      [] name = "Meteor" -> Meteor_cleanup(file)
      [] name = "ToolBox" -> ToolBox_cleanup(file, dict)
      [] name = "BioTransformer" -> BioTransformer_cleanup(file, dict)
      [] name = "CTS" -> CTS_cleanup(file, dict)
      [] name = "SyGMa" -> gen_sygma_metabolites_DF(file, dict)

RunTIMES == Ran("TIMES", RunAdapter("TIMES", raw, DTXSIDdict))
RunMeteor == Ran("Meteor", RunAdapter("Meteor", raw, DTXSIDdict))
RunToolBox == Ran("ToolBox", RunAdapter("ToolBox", raw, DTXSIDdict))
RunBioTransformer ==
    Ran("BioTransformer", RunAdapter("BioTransformer", raw, DTXSIDdict))
RunCTS == Ran("CTS", RunAdapter("CTS", raw, DTXSIDdict))
RunSyGMa == Ran("SyGMa", RunAdapter("SyGMa", raw, DTXSIDdict))

NextAdapters ==
    \/ RunTIMES
    \/ RunMeteor
    \/ RunToolBox
    \/ RunBioTransformer
    \/ RunCTS
    \/ RunSyGMa

SpecAdapters == InitAdapters /\ [][NextAdapters]_vars

(***************************************************************************)
(* genLiteratureDF.  raw is the primary table (chemRegFile): rows with     *)
(* Parent, Query and Structure_SMILES, the last two possibly empty.        *)
(* markushFile is the supplementary table: rows with "Parent DTXSID",      *)
(* "Markush DTXSID" and JChemInchiKey, a curated table with no empty cell. *)
(* "J8", "J9" are identifiers as JChem writes them and "K8", "K9" the      *)
(* same with the standard ending.  Markush is "True" or "False".           *)
(***************************************************************************)
\* x[:-4] + 'SA-N'
StandardEnding(x) ==
    CASE x = "J8" -> "K8"
      [] x = "J9" -> "K9"
      [] OTHER -> x

LiteratureCols == {"Reported", "Metabolite DTXSID", "Markush"}

genLiteratureDF(chemRegFile, markushTable) ==
    LET \* the loop over df['Structure_SMILES']: None for a cell that is not
        \* a string; MolToInchi raises on the None of a string that does
        \* not parse
        inchiKeyList ==
            FirstRaise([i \in DOMAIN chemRegFile |->
                IF chemRegFile[i].Structure_SMILES = "NaN" THEN "NaN"
                ELSE MolToInchiKey(MolFromSmiles(chemRegFile[i].Structure_SMILES))])
        Markush(i) == inchiKeyList.val[i] = "NaN"
        markushDF ==
            [j \in DOMAIN markushTable |->
                [c \in arg_on \cup {"Metabolite DTXSID", "Markush"} |->
                    CASE c = "DTXSID" -> markushTable[j]["Parent DTXSID"]
                      [] c = "Metabolite DTXSID" -> markushTable[j]["Markush DTXSID"]
                      [] c = "Metabolite_INCHIKEY" ->
                             StandardEnding(markushTable[j].JChemInchiKey)
                      [] c = "Markush" -> "True"]]
        \* pd.merge(df, markushDF[[...]], on = ['Metabolite DTXSID'],
        \* how = 'left'): a row of df for each row of markushDF with its
        \* Metabolite DTXSID, one row with no Metabolite_INCHIKEY_y if none
        MergedRow(i, y) ==
            [c \in arg_on \cup {"Metabolite DTXSID", "Markush"} |->
                CASE c = "DTXSID" -> chemRegFile[i].Parent
                  [] c = "Metabolite DTXSID" -> chemRegFile[i].Query
                  [] c = "Metabolite_INCHIKEY" ->
                         IF ~Markush(i) THEN inchiKeyList.val[i] ELSE y
                  [] c = "Markush" -> IF Markush(i) THEN "True" ELSE "False"]
        Matches(i) ==
            SelectIdx(markushDF,
                      {j \in DOMAIN markushDF :
                          markushDF[j]["Metabolite DTXSID"] = chemRegFile[i].Query})
        OfRow(i) ==
            IF Matches(i) = <<>> THEN <<MergedRow(i, "NaN")>>
            ELSE [k \in DOMAIN Matches(i) |->
                     MergedRow(i, Matches(i)[k]["Metabolite_INCHIKEY"])]
        mergedDF == Flatten([i \in DOMAIN chemRegFile |-> OfRow(i)])
        missingSubset ==
            SelectIdx(markushDF,
                      {j \in DOMAIN markushDF :
                          \A i \in DOMAIN mergedDF :
                             mergedDF[i]["DTXSID"] # markushDF[j]["DTXSID"]})
        appended == mergedDF \o missingSubset
        dropna == SelectIdx(appended,
                            {i \in DOMAIN appended :
                                \A c \in DOMAIN appended[i] :
                                   appended[i][c] # "NaN"})
        final == DropDupRows(dropna)
    IN  IF inchiKeyList.st # "returned" THEN RaisedDF(inchiKeyList.st)
        ELSE Returned([cols |-> LiteratureCols,
                       rows |-> [i \in DOMAIN final |->
                                   [c \in arg_on \cup LiteratureCols |->
                                       IF c = "Reported" THEN "1"
                                       ELSE final[i][c]]]])

ChemRegRows ==
    [Parent : {"P1", "P2"}, Query : {"G1", "G2", "NaN"},
     Structure_SMILES : {"s1", "NaN", "bad"}]
ChemRegFiles == SeqsUpTo(ChemRegRows, MaxLit)

MarkushRows ==
    {[c \in {"Parent DTXSID", "Markush DTXSID", "JChemInchiKey"} |->
        CASE c = "Parent DTXSID" -> p
          [] c = "Markush DTXSID" -> g
          [] c = "JChemInchiKey" -> k] :
        p \in {"P1", "P2"}, g \in {"G1", "G2"}, k \in {"J8", "J9"}}
MarkushFiles == SeqsUpTo(MarkushRows, MaxLit)

InitLiterature ==
    /\ phase = "adapter"
    /\ adapter = "Literature"
    /\ raw \in ChemRegFiles
    /\ markushFile \in MarkushFiles
    /\ DTXSIDdict = NoDict
    /\ out = UnsetDF
    /\ data = <<>> /\ modelName = StrName("M1") /\ sumReducedMark = Unset
    /\ sens = Unset /\ prec = Unset
    /\ DF_List = <<>> /\ agg = UnsetDF /\ aggNested = UnsetDF

GenLiteratureDF == Ran("Literature", genLiteratureDF(raw, markushFile))

SpecLiterature == InitLiterature /\ [][GenLiteratureDF]_vars

-----------------------------------------------------------------------------
(***************************************************************************)
(* Properties of the metric engine.  The counts of the specification are   *)
(* written here as cardinalities of sets of rows and of sets of pairs.     *)
(***************************************************************************)
Flagged(i) == data[i].M1 = 1
NonAmbigTP ==
    Cardinality({i \in DOMAIN data :
        Flagged(i) /\ data[i].Reported = 1 /\ data[i].Markush = 0})
ReportedNonAmbig ==
    Cardinality({i \in DOMAIN data :
        data[i].Reported = 1 /\ data[i].Markush = 0})
ReportedAmbig ==
    Cardinality({<<data[i].DTXSID, data[i].MetabDTXSID>> :
        i \in {j \in DOMAIN data :
                  data[j].Reported = 1 /\ data[j].Markush = 1}})
\* the Markush pairs at least one of whose rows carries the model flag
FlaggedMarkushPairs ==
    {pm \in Parents \X Groups :
        \E i \in DOMAIN data :
            /\ data[i].Markush = 1
            /\ <<data[i].DTXSID, data[i].MetabDTXSID>> = pm
            /\ Flagged(i)}
TruePositive ==
    Cardinality({i \in DOMAIN data : Flagged(i) /\ data[i].Reported = 1})
AllPredicted == Cardinality({i \in DOMAIN data : Flagged(i)})
InUnitInterval(r) == r.st = "returned" /\ r.val \in 0..1000

\* C1: when the reported count is not zero, calcSensitivity returns
\* round((nonAmbigTP + ambigTP) / (reportedNonAmbig + reportedAmbig), 3),
\* ambigTP being what sumMarkParents returned; on the scenario table (2
\* reported true positives, 1 reported false negative, one Reported+Markush
\* group of 3 rows with exactly 1 flagged) it returns 0.75.
C1_SensitivityFormula ==
    sens # Unset =>
        /\ ReportedNonAmbig + ReportedAmbig # 0 =>
              sens = Returned(Round3(NonAmbigTP + sumReducedMark.val,
                                     ReportedNonAmbig + ReportedAmbig))
        /\ data \in ExampleTables => sens = Returned(750)

C1_Witness == data \in ExampleTables /\ sens = Returned(750)

\* C2: calcPrecision returns round(truePositive / allPredicted, 3), and
\* exactly 0.0, not an error, when no row has the model flag set, whatever
\* the Reported values are.
C2_PrecisionFormula ==
    prec # Unset =>
        prec = IF AllPredicted = 0 THEN Returned(0)
               ELSE Returned(Round3(TruePositive, AllPredicted))

C2_Witness ==
    /\ prec = Returned(0)
    /\ AllPredicted = 0
    /\ \E i \in DOMAIN data : data[i].Reported = 1

\* C3: calcSensitivity and calcPrecision each always produce a result, and
\* the result lies in [0, 1].
C3_MetricsInUnitInterval ==
    /\ sens # Unset => InUnitInterval(sens)
    /\ prec # Unset => InUnitInterval(prec)

\* C10: sumMarkParents counts each distinct (DTXSID, Metabolite DTXSID) pair
\* among the Markush rows once if at least one row of the pair has the model
\* flag set, whatever its Reported flag and however many of its rows are
\* flagged, and not at all otherwise; rows that are not Markush add nothing.
C10_SumMarkParents ==
    sumReducedMark # Unset =>
        sumReducedMark = Returned(Cardinality(FlaggedMarkushPairs))

\* a pair with two flagged unreported Markush rows and a flagged row that is
\* not Markush: counted once
C10_Witness ==
    /\ sumReducedMark = Returned(1)
    /\ \E i, j \in DOMAIN data :
          /\ i # j
          /\ data[i].Markush = 1 /\ data[j].Markush = 1
          /\ Flagged(i) /\ Flagged(j)
          /\ data[i].Reported = 0 /\ data[j].Reported = 0
          /\ data[i].DTXSID = data[j].DTXSID
          /\ data[i].MetabDTXSID = data[j].MetabDTXSID
    /\ \E k \in DOMAIN data : data[k].Markush = 0 /\ Flagged(k)

\* the table with one more column, Any, that holds in each row the logical
\* OR of the columns named in names
WithAny(df, names) ==
    [i \in DOMAIN df |->
        [c \in DOMAIN df[i] \cup {"Any"} |->
            IF c = "Any"
            THEN IF \E k \in DOMAIN names : df[i][names[k]] = 1 THEN 1 ELSE 0
            ELSE df[i][c]]]

\* C11: calcSensitivity and calcPrecision called with a non-empty list of
\* model columns give what they give on the single column that holds the
\* logical OR of the listed columns, and a one-element list gives what the
\* bare column name gives.
C11_ListIsOr ==
    (phase = "selector" /\ modelName.isList) =>
        /\ sens # Unset =>
              /\ sens = calcSensitivity(WithAny(data, modelName.names),
                                        StrName("Any"))
              /\ Len(modelName.names) = 1 =>
                    sens = calcSensitivity(data, StrName(modelName.names[1]))
        /\ prec # Unset =>
              /\ prec = calcPrecision(WithAny(data, modelName.names),
                                      StrName("Any"))
              /\ Len(modelName.names) = 1 =>
                    prec = calcPrecision(data, StrName(modelName.names[1]))

\* a three-column list whose OR differs from each of its columns: both
\* metrics returned, and neither is the value of a single listed column
C11_Witness ==
    /\ phase = "selector"
    /\ modelName.isList /\ Len(modelName.names) = 3
    /\ sens.st = "returned" /\ prec.st = "returned"
    /\ \A k \in 1..3 :
          /\ sens # calcSensitivity(data, StrName(modelName.names[k]))
          /\ prec # calcPrecision(data, StrName(modelName.names[k]))

-----------------------------------------------------------------------------
(***************************************************************************)
(* Properties of the aggregator.                                           *)
(***************************************************************************)
PairOf(row) == <<row["DTXSID"], row["Metabolite_INCHIKEY"]>>
RowSet(df) == {df.rows[i] : i \in DOMAIN df.rows}
\* the pairs of the i-th input table
InputPairs(i) == {PairOf(r) : r \in RowSet(DF_List[i])}
AllInputPairs == UNION {InputPairs(i) : i \in DOMAIN DF_List}
RowsWithPair(df, pk) == {j \in DOMAIN df.rows : PairOf(df.rows[j]) = pk}

\* C4: after aggregate_DFs over two or more adapter outputs, every pair of
\* any input is in exactly one row of the result, no other pair is in it,
\* and each source's flag in that row is 1 if the pair was in that source's
\* table and 0 otherwise.
C4_OneRowPerPair ==
    agg.st = "returned" =>
        /\ \A pk \in AllInputPairs :
              Cardinality(RowsWithPair(agg.val, pk)) = 1
        /\ \A j \in DOMAIN agg.val.rows :
              PairOf(agg.val.rows[j]) \in AllInputPairs
        /\ \A j \in DOMAIN agg.val.rows : \A i \in DOMAIN DF_List :
              agg.val.rows[j][Sources[i]] =
                  IF PairOf(agg.val.rows[j]) \in InputPairs(i) THEN "1" ELSE "0"

\* C5: aggregate_DFs([A, B, C]) and aggregate_DFs([aggregate_DFs([A, B]), C])
\* hold the same set of rows.
C5_Associative ==
    (agg # UnsetDF /\ aggNested # UnsetDF) =>
        /\ agg.st = "returned" /\ aggNested.st = "returned"
        /\ agg.val.cols = aggNested.val.cols
        /\ RowSet(agg.val) = RowSet(aggNested.val)

\* three tables that share a pair, the first holding it twice, and a pair
\* that only the third holds
C5_Witness ==
    /\ agg.st = "returned" /\ aggNested.st = "returned"
    /\ Len(DF_List) = 3
    /\ InputPairs(1) \cap InputPairs(2) \cap InputPairs(3) # {}
    /\ Len(DF_List[1].rows) > Cardinality(InputPairs(1))
    /\ InputPairs(3) \ (InputPairs(1) \cup InputPairs(2)) # {}
    /\ Len(agg.val.rows) = 2

-----------------------------------------------------------------------------
(***************************************************************************)
(* Properties of the source adapters.                                      *)
(***************************************************************************)
OutPairs == {PairOf(r) : r \in RowSet(out.val)}

\* the identifier the library gives a structure string that parses
KeyOfSmiles(x) == MolToInchiKey(MolFromSmiles(x))
\* the identifier ToolBox_cleanup looks a parent up by: stereo removed
QsarKeyOfSmiles(x) == MolToInchiKey(MolFromSmiles(MolToSmiles(MolFromSmiles(x))))

\* the rows of raw whose structure string the adapter parses, and the cell
\* it parses
ParsedCells(name, file) ==
    CASE name = "TIMES" ->
            {<<i, file[i].Smiles>> :
                i \in {j \in (TIMES_header + 1)..(Len(file) - 2) :
                          file[j].DTXSID = " "}}
      [] name = "Meteor" ->
            {<<i, file[i].SMILES>> :
                i \in {j \in DOMAIN file : file[j].Parent # "NaN"}}
      [] name = "ToolBox" ->
            {<<i, file[i].Metabolite>> :
                i \in {j \in 1..(Len(file) - 2) : file[j].Metabolite # "NaN"}}
      [] name = "BioTransformer" ->
            {<<i, file[i].InChI>> : i \in DOMAIN file}
      [] name \in {"CTS", "SyGMa"} ->
            {<<i, file[i].smiles>> : i \in DOMAIN file}

BadRows(name, file) ==
    {ic[1] : ic \in {x \in ParsedCells(name, file) : x[2] \in Unparseable}}

WithoutBadRows(name, file) ==
    SelectIdx(file, DOMAIN file \ BadRows(name, file))

\* C6: in TIMES_cleanup, Meteor_cleanup, ToolBox_cleanup and CTS_cleanup a
\* row whose structure string cannot be parsed never aborts the call: the
\* call returns, and it emits the rows it emits without the bad rows.
C6_BadRowNeverAborts ==
    (out # UnsetDF /\ adapter \in {"TIMES", "Meteor", "ToolBox", "CTS"}
        /\ BadRows(adapter, raw) # {}) =>
        /\ out.st = "returned"
        /\ RowSet(out.val) =
               RowSet(RunAdapter(adapter, WithoutBadRows(adapter, raw),
                                 DTXSIDdict).val)

\* For each adapter that goes through the index: the pairs <<k, m>> of the
\* raw input, k the identifier the parent of metabolite m is looked up by.
RECURSIVE CTSParentAt(_, _)
\* the structure string of the nearest parent row at or before row i
CTSParentAt(file, i) ==
    IF i = 0 THEN "NaN"
    ELSE IF file[i].routes = "NaN" THEN file[i].smiles
    ELSE CTSParentAt(file, i - 1)

ParentLinks(name, file) ==
    CASE name = "ToolBox" ->
            {<<QsarKeyOfSmiles(file[i].SMILES), KeyOfSmiles(file[i].Metabolite)>> :
                i \in {j \in 1..(Len(file) - 2) : file[j].Metabolite # "NaN"}}
      [] name = "BioTransformer" ->
            {<<file[i].Precursor, file[i].InChIKey>> : i \in DOMAIN file}
      [] name = "CTS" ->
            {<<KeyOfSmiles(CTSParentAt(file, i)), KeyOfSmiles(file[i].smiles)>> :
                i \in {j \in DOMAIN file :
                          file[j].routes # "NaN" /\ CTSParentAt(file, j) # "NaN"}}
      [] name = "SyGMa" ->
            UNION {{<<KeyOfSmiles(file[i].smiles), m>> : m \in {"K1", "K2"}} :
                      i \in DOMAIN file}

\* C7: in ToolBox_cleanup, BioTransformer_cleanup, CTS_cleanup and
\* gen_sygma_metabolites_DF a row whose parent has no entry in the index is
\* dropped or emitted with a null ParentID: the call does not abort, and no
\* row is emitted with the ParentID of another parent.  Stated for the
\* inputs in which every structure string parses, a parent has no entry and
\* the engine expanded some parent, so that what fails is the lookup.
C7_UnresolvedParent ==
    (/\ out # UnsetDF
     /\ adapter \in {"ToolBox", "BioTransformer", "CTS", "SyGMa"}
     /\ BadRows(adapter, raw) = {}
     /\ adapter = "SyGMa" => \E i \in DOMAIN raw : raw[i].engine = "ok"
     /\ \E l \in ParentLinks(adapter, raw) : l[1] \notin DOMAIN DTXSIDdict) =>
        /\ out.st = "returned"
        /\ \A e \in RowSet(out.val) :
              \/ e["DTXSID"] = "NaN"
              \/ \E l \in ParentLinks(adapter, raw) :
                    /\ l[2] = e["Metabolite_INCHIKEY"]
                    /\ l[1] \in DOMAIN DTXSIDdict
                    /\ DTXSIDdict[l[1]] = e["DTXSID"]

\* The rows the interleaved formats hold between the rows the adapter cuts
\* off, which of them are parent rows, and the ParentID of a parent row.
DataRows(name, file) ==
    IF name = "TIMES" THEN SubSeq(file, TIMES_header + 1, Len(file) - 2)
    ELSE file
IsParentRow(name, row) ==
    IF name = "TIMES" THEN row.DTXSID # " " ELSE row.routes = "NaN"
ParentIDOf(name, row) ==
    IF name = "TIMES" THEN row.DTXSID
    ELSE DictGet(DTXSIDdict, KeyOfSmiles(row.smiles))
StructureOf(name, row) == IF name = "TIMES" THEN row.Smiles ELSE row.smiles

RECURSIVE NearestParent(_, _, _)
\* the index of the nearest parent row before row i, 0 if there is none
NearestParent(name, rows, i) ==
    IF i <= 1 THEN 0
    ELSE IF IsParentRow(name, rows[i - 1]) THEN i - 1
    ELSE NearestParent(name, rows, i - 1)

\* the metabolite rows that follow a parent row, each with the ParentID of
\* the nearest preceding parent row
ForwardFilled(name, file) ==
    LET rows == DataRows(name, file)
        metab == {i \in DOMAIN rows :
                     /\ ~IsParentRow(name, rows[i])
                     /\ NearestParent(name, rows, i) # 0}
    IN  {<<ParentIDOf(name, rows[NearestParent(name, rows, i)]),
           KeyOfSmiles(StructureOf(name, rows[i]))>> : i \in metab}

\* C8: TIMES_cleanup and CTS_cleanup emit every metabolite row that follows
\* a parent row, each emitted metabolite row with the ParentID of the
\* nearest preceding parent row, and no parent row.  Stated for the inputs
\* whose first row is a parent row, where every metabolite row has one.
C8_ForwardFill ==
    (/\ out # UnsetDF
     /\ adapter \in {"TIMES", "CTS"}
     /\ DataRows(adapter, raw) # <<>>
     /\ IsParentRow(adapter, DataRows(adapter, raw)[1])) =>
        /\ out.st = "returned"
        /\ OutPairs = ForwardFilled(adapter, raw)

\* C9: the output of each adapter holds each (DTXSID, Metabolite_INCHIKEY)
\* pair at most once, also when several raw rows spell one structure in
\* different ways.  Stated for the pairs that carry a ParentID.
C9_PairsUnique ==
    out.st = "returned" =>
        \A i, j \in DOMAIN out.val.rows :
            (i # j /\ out.val.rows[i]["DTXSID"] # "NaN") =>
                PairOf(out.val.rows[i]) # PairOf(out.val.rows[j])

\* the parents of the series whose expansion and scoring did not fail
NonFailing(series) == SelectSeq(series, LAMBDA x : x.engine = "ok")

\* the records of the items of a series, none of which failed
RecordsOf(series, dict) ==
    IF series = <<>> THEN OutFrame(<<>>, {}, "SyGMa")
    ELSE gen_sygma_metabolites_DF(series, dict).val

\* C12: when the expansion or the scoring of some parents of the series
\* fails, gen_sygma_metabolites_DF still returns, and it returns the records
\* of all the parents that did not fail, none when every parent failed.
C12_FailureSkipped ==
    (/\ adapter = "SyGMa"
     /\ out # UnsetDF
     /\ \E k \in DOMAIN raw : raw[k].engine # "ok") =>
        /\ out.st = "returned"
        /\ out.val = RecordsOf(NonFailing(raw), DTXSIDdict)

-----------------------------------------------------------------------------
(***************************************************************************)
(* Properties of genLiteratureDF.                                          *)
(***************************************************************************)
\* the (parent, group ID, identifier) triples of the supplementary table
SupplementTriples ==
    {<<markushFile[j]["Parent DTXSID"], markushFile[j]["Markush DTXSID"],
       StandardEnding(markushFile[j].JChemInchiKey)>> : j \in DOMAIN markushFile}

TripleOf(row) ==
    <<row["DTXSID"], row["Metabolite DTXSID"], row["Metabolite_INCHIKEY"]>>

\* the triples of the primary rows whose own structure string gave an
\* identifier
OwnTriples ==
    {<<raw[i].Parent, raw[i].Query, KeyOfSmiles(raw[i].Structure_SMILES)>> :
        i \in {k \in DOMAIN raw : raw[k].Structure_SMILES # "NaN"}}

\* C13: of the rows genLiteratureDF returns, each with Markush true has a
\* parent, group ID and identifier that are together in one row of the
\* supplementary table; a row has Markush false exactly when it is a row
\* of the primary table whose own structure string gave its identifier;
\* no row lacks an identifier; and every row of the supplementary table
\* whose parent is not in the primary table is returned.
C13_MarkushMatchedOnPair ==
    (adapter = "Literature" /\ out.st = "returned") =>
        /\ \A r \in RowSet(out.val) :
              /\ r["Markush"] = "True" => TripleOf(r) \in SupplementTriples
              /\ r["Markush"] = "False" <=> TripleOf(r) \in OwnTriples
              /\ r["Metabolite_INCHIKEY"] # "NaN"
        /\ \A t \in SupplementTriples :
              (\A i \in DOMAIN raw : raw[i].Parent # t[1]) =>
                  \E r \in RowSet(out.val) :
                     TripleOf(r) = t /\ r["Markush"] = "True"

=============================================================================
